---- MODULE Spec2Model ----
(***************************************************************************)
(* Model of the spacedash Lambda handlers that work on the "player-stats"  *)
(* table: the leaderboard handler (src/unnamed/part_001), the              *)
(* update-player-stats handler (src/updatePlayerStatsDDB.js) and the       *)
(* get-player-stats handler (src/getCharacterURLS3.js, lines 156-207).     *)
(*                                                                         *)
(* JavaScript values are tagged records: Undefined, Null, NaN, Num(n),     *)
(* Str(text), Text(string), List(elements), Map(function from keys to      *)
(* values).  A JavaScript string that the code parses digit by digit       *)
(* (parseInt, parseFloat) is a Str, a sequence of one-character strings;   *)
(* one that it only tests, copies or hands to JSON.parse is a Text.  TLA+  *)
(* has no reals: the result of parseFloat is counted in tenths, and the    *)
(* texts of the model have at most one fractional digit.  Status codes are *)
(* numbers (the leaderboard handler writes them as the strings '200' and   *)
(* '400').                                                                 *)
(***************************************************************************)
EXTENDS Integers, Sequences, FiniteSets, TLC

VARIABLES
    table,       \* the player-stats table: username -> stored item
    req,         \* the request of the last invocation (handler, what it branches on)
    resp,        \* the response of the last invocation: statusCode, body
    storeCalls,  \* the store calls of the last invocation, each with its outcome
    items,       \* leaderboard: data.Items as the scan returned it
    players,     \* leaderboard: the in-memory players array when the handler ends
    lastUpdate   \* history: username -> query of its most recent successful update

vars == <<table, req, resp, storeCalls, items, players, lastUpdate>>

----------------------------------------------------------------------------
(* Bounds of the model *)

\* records of the largest scanned table
MaxPlayers == 11
\* elements of the longest stored list of times
MaxTimes == 3
\* the stored metric values of a scanned table run from -1 to MaxMetric - 1
MaxMetric == 2

(* Program constant: both rankings keep slice(0, 10) *)
TopN == 10

PlayerNames ==
    <<"p01", "p02", "p03", "p04", "p05", "p06", "p07",
      "p08", "p09", "p10", "p11", "p12", "p13">>

\* the usernames that update and get requests address: a request names one
\* username, and a second one stands for every other record of the table
Usernames == {PlayerNames[1], PlayerNames[2]}

----------------------------------------------------------------------------
(* JavaScript values *)

Undefined == [t |-> "undefined"]
Null == [t |-> "null"]
NaN == [t |-> "nan"]
Num(n) == [t |-> "num", n |-> n]
Str(s) == [t |-> "str", s |-> s]
Text(s) == [t |-> "text", s |-> s]
List(xs) == [t |-> "list", xs |-> xs]
Map(m) == [t |-> "map", m |-> m]

EmptyMap == [k \in {} |-> Undefined]

\* obj[key] of a mapping held as a TLA+ function: undefined when absent
Get(obj, key) == IF key \in DOMAIN obj THEN obj[key] ELSE Undefined

\* value.key of a JavaScript value that is not null or undefined
Prop(value, key) == IF value.t = "map" THEN Get(value.m, key) ELSE Undefined

\* ToBoolean
Truthy(v) ==
    CASE v.t \in {"undefined", "null", "nan"} -> FALSE
      [] v.t = "num" -> v.n # 0
      [] v.t = "str" -> v.s # <<>>
      [] v.t = "text" -> v.s # ""
      [] OTHER -> TRUE

\* v || 0
OrZero(v) == IF Truthy(v) THEN v ELSE Num(0)

----------------------------------------------------------------------------
(* parseInt and parseFloat, on texts held as sequences of characters *)

Digits == <<"0", "1", "2", "3", "4", "5", "6", "7", "8", "9">>

IsDigit(c) == \E i \in 1..Len(Digits) : Digits[i] = c

DigitValue(c) == (CHOOSE i \in 1..Len(Digits) : Digits[i] = c) - 1

RECURSIVE SkipSpaces(_)
SkipSpaces(s) == IF s # <<>> /\ Head(s) = " " THEN SkipSpaces(Tail(s)) ELSE s

\* the longest prefix of digits
RECURSIVE DigitPrefix(_)
DigitPrefix(s) ==
    IF s # <<>> /\ IsDigit(Head(s)) THEN <<Head(s)>> \o DigitPrefix(Tail(s)) ELSE <<>>

RECURSIVE DecimalValue(_)
DecimalValue(ds) ==
    IF ds = <<>> THEN 0
    ELSE 10 * DecimalValue(SubSeq(ds, 1, Len(ds) - 1)) + DigitValue(ds[Len(ds)])

HasSign(s) == s # <<>> /\ Head(s) \in {"+", "-"}

Unsigned(s) == IF HasSign(s) THEN Tail(s) ELSE s

SignOf(s) == IF s # <<>> /\ Head(s) = "-" THEN -1 ELSE 1

\* parseInt(text), radix 10: leading blanks, a sign, the longest run of digits
ParseIntText(s) ==
    LET body == Unsigned(SkipSpaces(s))
        ds == DigitPrefix(body)
    IN  IF ds = <<>> THEN NaN ELSE Num(SignOf(SkipSpaces(s)) * DecimalValue(ds))

\* parseInt(v) of a query parameter: a text or undefined
ParseInt(v) == IF v.t = "str" THEN ParseIntText(v.s) ELSE NaN

\* parseFloat(text), in tenths: a sign, digits, and one digit after the point
ParseFloatText(s) ==
    LET body == Unsigned(SkipSpaces(s))
        ip == DigitPrefix(body)
        rest == SubSeq(body, Len(ip) + 1, Len(body))
        fp == IF rest # <<>> /\ Head(rest) = "." THEN DigitPrefix(Tail(rest)) ELSE <<>>
        tenths == IF fp = <<>> THEN 0 ELSE DigitValue(fp[1])
    IN  IF ip = <<>> /\ fp = <<>> THEN NaN
        ELSE Num(SignOf(SkipSpaces(s)) * (10 * DecimalValue(ip) + tenths))

\* parseFloat(v): a text is parsed, a number is itself, anything else is NaN
ParseFloat(v) ==
    CASE v.t = "str" -> ParseFloatText(v.s)
      [] v.t = "num" -> Num(10 * v.n)
      [] OTHER -> NaN

----------------------------------------------------------------------------
(* Array helpers *)

Min(a, b) == IF a <= b THEN a ELSE b

\* seq.slice(from, to), zero-based, to exclusive
Slice(seq, from, to) == SubSeq(seq, from + 1, Min(to, Len(seq)))

\* the comparator's result as the sort reads it: NaN counts as 0
SortCompare(v) == IF v.t = "num" THEN v.n ELSE 0

\* x - y of two JavaScript values: NaN unless both are numbers
Subtract(x, y) == IF x.t = "num" /\ y.t = "num" THEN Num(x.n - y.n) ELSE NaN

----------------------------------------------------------------------------
(* The leaderboard handler, src/unnamed/part_001 *)

\* the comparator with its operands swapped: an ascending sort
ByCoinsAscending(a, b) ==
    SortCompare(Subtract(OrZero(Get(a, "coins-collected")),
                         OrZero(Get(b, "coins-collected"))))

\* (a, b) => (b['coins-collected'] || 0) - (a['coins-collected'] || 0)
ByCoins(a, b) ==
    SortCompare(Subtract(OrZero(Get(b, "coins-collected")),
                         OrZero(Get(a, "coins-collected"))))

\* (a, b) => (b['enemies-defeated'] || 0) - (a['enemies-defeated'] || 0)
ByEnemies(a, b) ==
    SortCompare(Subtract(OrZero(Get(b, "enemies-defeated")),
                         OrZero(Get(a, "enemies-defeated"))))

\* (a, b) => a - b
Ascending(a, b) == a - b

\* the comparators the handler hands to sort
Comparator(cmp, a, b) ==
    CASE cmp = "coins" -> ByCoins(a, b)
      [] cmp = "enemies" -> ByEnemies(a, b)
      [] cmp = "ascending" -> Ascending(a, b)

\* Array.prototype.sort with comparator cmp: a stable sort (ES2019), here by
\* insertion: each element goes right after the last one that cmp does not put
\* after it
StableSort(seq, cmp) ==
    LET ins[k \in 0..Len(seq)] ==
            IF k = 0 THEN <<>>
            ELSE LET prev == ins[k - 1]
                     x == seq[k]
                     keep == {j \in 1..Len(prev) : Comparator(cmp, prev[j], x) <= 0}
                     pos == IF keep = {} THEN 0
                            ELSE CHOOSE j \in keep : \A i \in keep : i <= j
                 IN  SubSeq(prev, 1, pos) \o <<x>> \o SubSeq(prev, pos + 1, Len(prev))
    IN  ins[Len(seq)]

\* players.sort(by coins): sorts the array in place and returns it
SortByCoins(ps) == StableSort(ps, "coins")

\* players.sort(by enemies): sorts the same array in place and returns it
SortByEnemies(ps) == StableSort(ps, "enemies")

\* a slice that keeps one entry too many
TopOneMore(ps) == Slice(ps, 0, TopN + 1)

\* .slice(0, 10)
Top(ps) == Slice(ps, 0, TopN)

\* .map(player => ({username, coins}))
CoinsEntry(player) ==
    [username |-> Get(player, "username"),
     coins |-> OrZero(Get(player, "coins-collected"))]

\* .map(player => ({username, enemies}))
EnemiesEntry(player) ==
    [username |-> Get(player, "username"),
     enemies |-> OrZero(Get(player, "enemies-defeated"))]

TopCoins(ps) == [i \in 1..Len(Top(ps)) |-> CoinsEntry(Top(ps)[i])]

TopEnemies(ps) == [i \in 1..Len(Top(ps)) |-> EnemiesEntry(Top(ps)[i])]

\* typeof v === 'object' of a truthy value
IsObject(v) == v.t \in {"map", "list"}

\* the keys for (const level in times) visits
Levels(times) ==
    IF times.t = "map" THEN DOMAIN times.m
    ELSE {ToString(i - 1) : i \in 1..Len(times.xs)}

\* times[level]
LevelValue(times, level) ==
    IF times.t = "map" THEN times.m[level]
    ELSE times.xs[CHOOSE i \in 1..Len(times.xs) : ToString(i - 1) = level]

\* times[level]?.L
LevelList(times, level) ==
    LET lv == LevelValue(times, level)
    IN  IF lv.t \in {"undefined", "null"} THEN Undefined ELSE Prop(lv, "L")

\* the levels the loop stores: if (times[level]?.L)
TaggedLevels(times) == {level \in Levels(times) : Truthy(LevelList(times, level))}

\* .map(timeObj => parseFloat(timeObj.N)) throws a TypeError when L has no map
\* method (it is no array) or an element is null or undefined
LevelThrows(l) ==
    \/ l.t # "list"
    \/ \E i \in 1..Len(l.xs) : l.xs[i].t \in {"undefined", "null"}

IsNumber(v) == v.t = "num"

TimeOf(v) == v.n

\* the parsed times kept in stored order: the sort left out
LevelTimesUnsorted(l) ==
    LET parsed == [i \in 1..Len(l.xs) |-> ParseFloat(Prop(l.xs[i], "N"))]
        kept == SelectSeq(parsed, IsNumber)
    IN  [i \in 1..Len(kept) |-> TimeOf(kept[i])]

\* L.map(parseFloat(timeObj.N)).filter(!isNaN) and then .sort((a, b) => a - b)
LevelTimes(l) ==
    LET parsed == [i \in 1..Len(l.xs) |-> ParseFloat(Prop(l.xs[i], "N"))]
        kept == SelectSeq(parsed, IsNumber)
    IN  StableSort([i \in 1..Len(kept) |-> TimeOf(kept[i])], "ascending")

\* the record's times && typeof times === 'object'
HasTimes(player) ==
    LET times == Get(player, "fastest-times")
    IN  Truthy(times) /\ IsObject(times)

\* whether the callback of players.map throws for this player
PlayerThrows(player) ==
    LET times == Get(player, "fastest-times")
    IN  /\ HasTimes(player)
        /\ \E level \in TaggedLevels(times) : LevelThrows(LevelList(times, level))

\* the callback of players.map: {username, fastestTimes}
FastestTimesEntry(player) ==
    LET times == Get(player, "fastest-times")
        levels == IF HasTimes(player) THEN TaggedLevels(times) ELSE {}
    IN  [username |-> Get(player, "username"),
         fastestTimes |-> [level \in levels |-> LevelTimes(LevelList(times, level))]]

AllFastestTimes(ps) == [i \in 1..Len(ps) |-> FastestTimesEntry(ps[i])]

\* the three steps on the players array ps, each sort leaving the array sorted
\* for the next step: the array as the steps leave it, whether the callback of
\* players.map throws, and the body when it does not
Compose(ps) ==
    LET byCoins == SortByCoins(ps)
        byEnemies == SortByEnemies(byCoins)
        throws == \E i \in 1..Len(byEnemies) : PlayerThrows(byEnemies[i])
    IN  [players |-> byEnemies,
         throws |-> throws,
         body |-> IF throws THEN [error |-> "TypeError"]
                  ELSE [topCoins |-> TopCoins(byCoins),
                        topEnemies |-> TopEnemies(byEnemies),
                        allFastestTimes |-> AllFastestTimes(byEnemies)]]

----------------------------------------------------------------------------
(* The record store: the DynamoDB table "player-stats", keyed by username *)

\* the usernames of the table in the order a scan visits them
ScanNames(t) == SelectSeq(PlayerNames, LAMBDA n : n \in DOMAIN t)

\* the records of the table in the order a scan visits them
Scan(t) == [i \in 1..Len(ScanNames(t)) |-> t[ScanNames(t)[i]]]

\* The store ends the page of a scan once it has read 1 MB of data.  A record
\* is at most 400 KB, so a page that does not end the table holds two records
\* or more; how many depends on the sizes of the records, which the model
\* leaves open: the page holds the whole table, all but its last record, or
\* its first two records.
FirstPages(t) ==
    LET n == Len(ScanNames(t))
    IN  {n} \cup {k \in {2, n - 1} : 2 <= k /\ k < n}

\* dynamo.scan({TableName}), one call: the first page of the table, and the
\* key to go on from when records remain
ScanPage(t, k) ==
    [Items |-> List(SubSeq(Scan(t), 1, k)),
     LastEvaluatedKey |->
        IF k < Len(ScanNames(t)) THEN Text(ScanNames(t)[k]) ELSE Undefined]

\* a put that keeps the record a key already has
PutItemIfAbsent(t, item) ==
    [u \in DOMAIN t \cup {item.username.s} |->
        IF u \in DOMAIN t THEN t[u] ELSE item]

\* dynamo.put({TableName, Item}): the item replaces the record of its key
PutItem(t, item) ==
    [u \in DOMAIN t \cup {item.username.s} |->
        IF u = item.username.s THEN item ELSE t[u]]

\* dynamo.get({TableName, Key: {username}}): result.Item
GetItem(t, username) == Get(t, username.s)

----------------------------------------------------------------------------
(* JSON.parse, on the texts the requests of the model carry *)

UnlistedTimesText == "{\"level1\":{\"L\":\"12.5\"}}"

UnlistedTimes ==
    Map([level \in {"level1"} |->
        Map([k \in {"L"} |-> Str(<<"1", "2", ".", "5">>)])])

JsonParse(text) ==
    CASE text = "[]" -> [ok |-> TRUE, value |-> List(<<>>)]
      [] text = "{}" -> [ok |-> TRUE, value |-> Map(EmptyMap)]
      [] text = "[1]" -> [ok |-> TRUE, value |-> List(<<Num(1)>>)]
      [] text = UnlistedTimesText -> [ok |-> TRUE, value |-> UnlistedTimes]
      [] OTHER -> [ok |-> FALSE, value |-> Undefined]

\* v || fallback of a query parameter
OrText(v, fallback) == IF Truthy(v) THEN v.s ELSE fallback

----------------------------------------------------------------------------
(* The update-player-stats handler, src/updatePlayerStatsDDB.js *)

\* event.queryStringParameters || {}
Query(event) == Get(event, "queryStringParameters")

QueryOrEmpty(event) ==
    IF Truthy(Query(event)) THEN Query(event).m ELSE EmptyMap

\* JSON.parse(levelsCompleted || "[]")
ParsedLevels(q) == JsonParse(OrText(Get(q, "levelsCompleted"), "[]"))

\* JSON.parse(fastestTimes || "{}")
ParsedFastestTimes(q) == JsonParse(OrText(Get(q, "fastestTimes"), "{}"))

\* the item to be saved
BuildItem(q) ==
    [username |-> q.username] @@
    ("coins-collected" :> OrZero(ParseInt(Get(q, "coinsCollected")))) @@
    ("enemies-defeated" :> OrZero(ParseInt(Get(q, "enemiesDefeated")))) @@
    ("levels-completed" :> ParsedLevels(q).value) @@
    ("fastest-times" :> ParsedFastestTimes(q).value)

\* a check that lets the empty username through
UsernameUndefined(username) == username = Undefined

\* if (!username)
UsernameMissing(username) == ~Truthy(username)

UpdatePlayerStats(event, storeOk) ==
    LET q == QueryOrEmpty(event)
        username == Get(q, "username")
        parsed == ParsedLevels(q).ok /\ ParsedFastestTimes(q).ok
        item == BuildItem(q)
    IN  /\ req' = [handler |-> "update", username |-> username]
        /\ items' = <<>>
        /\ players' = <<>>
        /\ IF UsernameMissing(username)
           THEN /\ resp' = [statusCode |-> 400,
                            body |-> [message |-> "Username is required."]]
                /\ storeCalls' = <<>>
                /\ UNCHANGED <<table, lastUpdate>>
           ELSE IF ~parsed
           THEN \* JSON.parse throws a SyntaxError before the put
                /\ resp' = [statusCode |-> 500,
                            body |-> [message |-> "Failed to update player stats."]]
                /\ storeCalls' = <<>>
                /\ UNCHANGED <<table, lastUpdate>>
           ELSE IF ~storeOk
           THEN /\ resp' = [statusCode |-> 500,
                            body |-> [message |-> "Failed to update player stats."]]
                /\ storeCalls' = <<[op |-> "put", ok |-> storeOk]>>
                /\ UNCHANGED <<table, lastUpdate>>
           ELSE /\ table' = PutItem(table, item)
                /\ storeCalls' = <<[op |-> "put", ok |-> storeOk]>>
                /\ lastUpdate' = (username.s :> q) @@ lastUpdate
                /\ resp' = [statusCode |-> 200,
                            body |-> [message |-> "Player stats overwritten successfully.",
                                      data |-> item]]

----------------------------------------------------------------------------
(* The get-player-stats handler, src/getCharacterURLS3.js *)

GetPlayerStats(event, storeOk) ==
    LET q == QueryOrEmpty(event)
        username == Get(q, "username")
        item == GetItem(table, username)
    IN  /\ req' = [handler |-> "get", username |-> username]
        /\ items' = <<>>
        /\ players' = <<>>
        /\ UNCHANGED <<table, lastUpdate>>
        /\ IF ~Truthy(username)
           THEN /\ resp' = [statusCode |-> 400,
                            body |-> [message |-> "Username is required."]]
                /\ storeCalls' = <<>>
           ELSE IF ~storeOk
           THEN /\ resp' = [statusCode |-> 500,
                            body |-> [message |-> "Failed to retrieve player stats."]]
                /\ storeCalls' = <<[op |-> "get", ok |-> storeOk]>>
           ELSE IF item = Undefined
           THEN \* !result.Item
                /\ resp' = [statusCode |-> 404,
                            body |-> [message |-> "Player not found."]]
                /\ storeCalls' = <<[op |-> "get", ok |-> storeOk]>>
           ELSE /\ resp' = [statusCode |-> 200,
                            body |-> [message |-> "Player stats retrieved successfully.",
                                      data |-> item]]
                /\ storeCalls' = <<[op |-> "get", ok |-> storeOk]>>

----------------------------------------------------------------------------
(* The leaderboard handler as a whole: try, switch, catch *)

\* a check that refuses an empty array as well
ItemsEmpty(data) == ~Truthy(data.Items) \/ data.Items.xs = <<>>

\* if (!data.Items)
ItemsMissing(data) == ~Truthy(data.Items)

\* the handler makes one scan call and reads data.Items of its answer;
\* data.LastEvaluatedKey is not read
Leaderboard(event, storeOk, pageLen) ==
    LET data == ScanPage(table, pageLen)
        composed == Compose(data.Items.xs)
    IN  /\ req' = [handler |-> "leaderboard", httpMethod |-> event.httpMethod]
        /\ UNCHANGED <<table, lastUpdate>>
        /\ IF event.httpMethod # "GET"
           THEN /\ resp' = [statusCode |-> 400,
                            body |-> [error |-> "Unsupported method"]]
                /\ storeCalls' = <<>>
                /\ items' = <<>>
                /\ players' = <<>>
           ELSE IF ~storeOk
           THEN \* dynamo.scan rejects: the catch answers 400
                /\ resp' = [statusCode |-> 400, body |-> [error |-> "store"]]
                /\ storeCalls' = <<[op |-> "scan", ok |-> storeOk]>>
                /\ items' = <<>>
                /\ players' = <<>>
           ELSE IF ItemsMissing(data)
           THEN \* throw new Error("No data found in DynamoDB")
                /\ resp' = [statusCode |-> 400,
                            body |-> [error |-> "No data found in DynamoDB"]]
                /\ storeCalls' = <<[op |-> "scan", ok |-> storeOk]>>
                /\ items' = <<>>
                /\ players' = <<>>
           ELSE /\ storeCalls' = <<[op |-> "scan", ok |-> storeOk]>>
                /\ items' = data.Items.xs
                /\ players' = composed.players
                /\ resp' = [statusCode |-> IF composed.throws THEN 400 ELSE 200,
                            body |-> composed.body]

----------------------------------------------------------------------------
(* Requests *)

UsernameParams == {Text("")} \cup {Text(u) : u \in Usernames}

CoinsParams == {Str(<<"7">>)}

EnemiesParams == {Str(<<"3", "x">>)}

LevelsParams == {Text("[1]")}

TimesParams == {Text(UnlistedTimesText), Text("{level1")}

ParamValues(k) ==
    CASE k = "username" -> UsernameParams
      [] k = "coinsCollected" -> CoinsParams
      [] k = "enemiesDefeated" -> EnemiesParams
      [] k = "levelsCompleted" -> LevelsParams
      [] k = "fastestTimes" -> TimesParams

\* the query strings that carry any of the parameters keys
Queries(keys) ==
    {q \in UNION {[ks -> UNION {ParamValues(k) : k \in ks}] : ks \in SUBSET keys} :
        \A k \in DOMAIN q : q[k] \in ParamValues(k)}

UpdateQueries ==
    Queries({"username", "coinsCollected", "enemiesDefeated",
             "levelsCompleted", "fastestTimes"})

GetQueries == Queries({"username"})

\* an event with its query string parameters, or with none (null)
EventsOf(queries) ==
    {[queryStringParameters |-> Map(q)] : q \in queries}
        \cup {[queryStringParameters |-> Null]}

LeaderboardEvents == {[httpMethod |-> m] : m \in {"GET", "POST"}}

----------------------------------------------------------------------------
(* Tables the store may hold before the first request *)

\* a record written without statistics: the key alone
BareItem(u) == [username |-> Text(u)]

BareTables == UNION {[us -> {0}] : us \in SUBSET Usernames}

InitTables == {[u \in DOMAIN b |-> BareItem(u)] : b \in BareTables}

----------------------------------------------------------------------------
(* Specification: the three handlers, invoked in any order *)

NoRequest == [handler |-> "none"]

NoResponse == [statusCode |-> 0, body |-> [message |-> ""]]

NoUpdates == [u \in {} |-> EmptyMap]

Started(tables) ==
    /\ table \in tables
    /\ req = NoRequest
    /\ resp = NoResponse
    /\ storeCalls = <<>>
    /\ items = <<>>
    /\ players = <<>>
    /\ lastUpdate = NoUpdates

Init == Started(InitTables)

Update == \E e \in EventsOf(UpdateQueries), ok \in BOOLEAN : UpdatePlayerStats(e, ok)

GetStats == \E e \in EventsOf(GetQueries), ok \in BOOLEAN : GetPlayerStats(e, ok)

GetLeaderboard ==
    \E e \in LeaderboardEvents, ok \in BOOLEAN, k \in FirstPages(table) :
        Leaderboard(e, ok, k)

Next == Update \/ GetStats \/ GetLeaderboard

Spec == Init /\ [][Next]_vars

----------------------------------------------------------------------------
(* Tables a scan may find: records written by any client of the table, with *)
(* fields absent, null or of another shape                                  *)

TimeTexts == {<<"1", "2", ".", "5">>, <<"b", "a", "d">>, <<"3", ".", "2">>, <<"7">>}

\* the elements of a stored list: {N: text}, {} and null
TimeObjects ==
    {Map([k \in {"N"} |-> Str(text)]) : text \in TimeTexts} \cup {Map(EmptyMap), Null}

TimeLists == UNION {[1..n -> TimeObjects] : n \in 0..MaxTimes}

Tagged(l) == Map([k \in {"L"} |-> l])

\* what a level may hold: {L: [...]}, {L: "12.5"}, [1] and null
LevelValues ==
    {Tagged(List(xs)) : xs \in TimeLists}
        \cup {Tagged(Str(<<"1", "2", ".", "5">>)), List(<<Num(1)>>), Null}

OtherLevelValues ==
    {Tagged(List(<<>>)),
     Tagged(List(<<Map([k \in {"N"} |-> Str(<<"7">>)])>>)),
     List(<<Num(1)>>)}

\* the mappings of levels: level1 and level2, each present or not
LevelMaps ==
    {EmptyMap}
        \cup {("level1" :> a) : a \in LevelValues}
        \cup {("level2" :> b) : b \in OtherLevelValues}
        \cup {("level1" :> a) @@ ("level2" :> b) :
                a \in LevelValues, b \in OtherLevelValues}

TimesValues == {Map(m) : m \in LevelMaps} \cup {Null, Num(5)}

TimesItems(u) ==
    {BareItem(u)} \cup {BareItem(u) @@ ("fastest-times" :> tv) : tv \in TimesValues}

\* one record with any of the times, alone or before a record without times
TimesTables ==
    {(PlayerNames[1] :> item) : item \in TimesItems(PlayerNames[1])}
        \cup {(PlayerNames[1] :> item) @@ (PlayerNames[2] :> BareItem(PlayerNames[2])) :
                item \in TimesItems(PlayerNames[1])}

\* the metric of the i-th record of a table: 0..MaxMetric stand for the numbers
\* -1..MaxMetric - 1, MaxMetric + 1 for an absent field, MaxMetric + 2 for null
Pattern(i, mult, off) == (mult * i + off) % (MaxMetric + 3)

WithMetric(item, field, raw) ==
    CASE raw <= MaxMetric -> item @@ (field :> Num(raw - 1))
      [] raw = MaxMetric + 1 -> item
      [] OTHER -> item @@ (field :> Null)

PatternItem(i, cm, em, eo) ==
    WithMetric(WithMetric(BareItem(PlayerNames[i]),
                          "coins-collected", Pattern(i, cm, 0)),
               "enemies-defeated", Pattern(i, em, eo))

\* tables of up to MaxPlayers records whose metrics follow a pattern
TopTables ==
    {[u \in {PlayerNames[i] : i \in 1..n} |->
        PatternItem(CHOOSE i \in 1..n : PlayerNames[i] = u, cm, em, eo)] :
        n \in 0..MaxPlayers, cm \in 0..(MaxMetric + 2), em \in 0..(MaxMetric + 2),
        eo \in 0..1}

ScanTables == TopTables \cup TimesTables

InitScan == Started(ScanTables)

\* the leaderboard handler on every table of ScanTables
SpecScan == InitScan /\ [][GetLeaderboard]_vars

----------------------------------------------------------------------------
(* What the claims speak of *)

\* the last invocation was a leaderboard GET that answered 200
LeaderboardOk == req.handler = "leaderboard" /\ resp.statusCode = 200

\* the last invocation was a leaderboard GET whose scan succeeded
ScanDone ==
    /\ req.handler = "leaderboard"
    /\ storeCalls = <<[op |-> "scan", ok |-> TRUE]>>

\* a stored metric, absent and null counted as 0
MetricOf(item, field) ==
    IF field \in DOMAIN item /\ item[field].t = "num" THEN item[field].n ELSE 0

Listed(list, name) == \E k \in 1..Len(list) : list[k].username = name

PositionIn(list, name) == CHOOSE k \in 1..Len(list) : list[k].username = name

\* records i < j of the scan with equal metric are listed in that order
TiesInScanOrder(list, field) ==
    \A i, j \in 1..Len(items) :
        (/\ i < j
         /\ MetricOf(items[i], field) = MetricOf(items[j], field)
         /\ Listed(list, items[i].username)
         /\ Listed(list, items[j].username))
        => PositionIn(list, items[i].username) < PositionIn(list, items[j].username)

(* C1: in a leaderboard response, records of equal coins are listed in       *)
(* topCoins in scan order, and records of equal enemies are listed in        *)
(* topEnemies in scan order, whatever their coins.                           *)
C1_TiesInScanOrder ==
    LeaderboardOk =>
        /\ TiesInScanOrder(resp.body.topCoins, "coins-collected")
        /\ TiesInScanOrder(resp.body.topEnemies, "enemies-defeated")

(* C2: allFastestTimes has one entry per scanned record, the k-th entry      *)
(* carrying the username of the k-th record of the scan.                     *)
C2_FastestTimesInScanOrder ==
    LeaderboardOk =>
        /\ Len(resp.body.allFastestTimes) = Len(items)
        /\ \A k \in 1..Len(items) :
              resp.body.allFastestTimes[k].username = items[k].username

(* C3: running the ranking and aggregation steps a second time on the same   *)
(* in-memory players array gives the document the first run gave.            *)
C3_ComposeTwice == LeaderboardOk => Compose(players).body = resp.body

(* C4: a leaderboard GET whose scan succeeded answers 200 and lists every    *)
(* scanned player in allFastestTimes, whatever the shape of the stored       *)
(* fields.                                                                   *)
C4_MalformedFieldsAbsorbed ==
    (ScanDone /\ req.httpMethod = "GET") =>
        /\ resp.statusCode = 200
        /\ \A i \in 1..Len(items) :
              Listed(resp.body.allFastestTimes, items[i].username)

(* C5: when the store call of an invocation fails the response is a server  *)
(* error (5xx), and an invocation calls the store at most once.              *)
C5_StoreFailureIsServerError ==
    /\ Len(storeCalls) <= 1
    /\ (\E i \in 1..Len(storeCalls) : ~storeCalls[i].ok) =>
          (resp.statusCode >= 500 /\ resp.statusCode <= 599)

NoUsernameTwice(list) ==
    \A k, l \in 1..Len(list) : list[k].username = list[l].username => k = l

(* C6: topCoins and topEnemies each have min(10, number of scanned records)  *)
(* entries, and no username appears twice in either list.                    *)
C6_TopLengths ==
    LeaderboardOk =>
        /\ Len(resp.body.topCoins) = Min(10, Len(items))
        /\ Len(resp.body.topEnemies) = Min(10, Len(items))
        /\ NoUsernameTwice(resp.body.topCoins)
        /\ NoUsernameTwice(resp.body.topEnemies)

\* a scan of more than ten records was cut to ten
C6_Witness ==
    /\ LeaderboardOk
    /\ Len(items) > 10
    /\ Len(resp.body.topCoins) = 10
    /\ Len(resp.body.topEnemies) = 10

Ranked(list, field, key) ==
    /\ \A k \in 1..(Len(list) - 1) : list[k][key].n >= list[k + 1][key].n
    /\ \A i \in 1..Len(items) :
          ~Listed(list, items[i].username) =>
              /\ Len(list) > 0
              /\ MetricOf(items[i], field) <= list[Len(list)][key].n
    /\ \A i \in 1..Len(items) :
          (field \notin DOMAIN items[i] /\ Listed(list, items[i].username)) =>
              /\ list[PositionIn(list, items[i].username)][key] = Num(0)
              /\ \A j \in 1..Len(items) :
                    MetricOf(items[j], field) > 0 =>
                        /\ Listed(list, items[j].username)
                        /\ PositionIn(list, items[j].username)
                               < PositionIn(list, items[i].username)

(* C7: the values reported in a ranking are in non-increasing order, every   *)
(* record left out of it has a value no greater than the last listed one,    *)
(* and a record without the metric field is reported with 0, after every     *)
(* record with a positive value.                                             *)
C7_RankingOrder ==
    LeaderboardOk =>
        /\ Ranked(resp.body.topCoins, "coins-collected", "coins")
        /\ Ranked(resp.body.topEnemies, "enemies-defeated", "enemies")

\* a record was left out of topCoins, and a record without the coins field is
\* listed in it below a record with coins
C7_Witness ==
    /\ LeaderboardOk
    /\ \E i \in 1..Len(items) : ~Listed(resp.body.topCoins, items[i].username)
    /\ \E i, j \in 1..Len(items) :
          /\ "coins-collected" \notin DOMAIN items[i]
          /\ Listed(resp.body.topCoins, items[i].username)
          /\ MetricOf(items[j], "coins-collected") > 0

ItemOf(name) == items[CHOOSE i \in 1..Len(items) : items[i].username = name]

IsTaggedList(lv) == lv.t = "map" /\ "L" \in DOMAIN lv.m /\ lv.m["L"].t = "list"

HasNoWrapper(lv) == lv.t # "map" \/ "L" \notin DOMAIN lv.m

ParsedElements(xs) ==
    {i \in 1..Len(xs) : ParseFloat(Prop(xs[i], "N")).t = "num"}

SameTimes(seq, xs) ==
    /\ Len(seq) = Cardinality(ParsedElements(xs))
    /\ \A i \in ParsedElements(xs) :
          LET v == ParseFloat(Prop(xs[i], "N")).n
          IN  Cardinality({k \in 1..Len(seq) : seq[k] = v})
                = Cardinality({j \in ParsedElements(xs) :
                                   ParseFloat(Prop(xs[j], "N")).n = v})

LevelsAsStored(entry) ==
    LET times == Get(ItemOf(entry.username), "fastest-times")
    IN  times.t = "map" =>
          \A level \in DOMAIN times.m :
              /\ IsTaggedList(times.m[level]) =>
                    /\ level \in DOMAIN entry.fastestTimes
                    /\ \A k \in 1..(Len(entry.fastestTimes[level]) - 1) :
                          entry.fastestTimes[level][k] <= entry.fastestTimes[level][k + 1]
                    /\ SameTimes(entry.fastestTimes[level], times.m[level].m["L"].xs)
              /\ HasNoWrapper(times.m[level]) => level \notin DOMAIN entry.fastestTimes

(* C8: for every level stored as {L: [...]} the sequence in allFastestTimes  *)
(* is ascending and holds exactly the parseable elements of the list, each   *)
(* as often as the list does; a level without the L wrapper is not listed.   *)
C8_LevelTimes ==
    LeaderboardOk =>
        \A k \in 1..Len(resp.body.allFastestTimes) :
            LevelsAsStored(resp.body.allFastestTimes[k])

\* the stored list 12.5, bad, 3.2 is reported as 3.2, 12.5 (in tenths), and a
\* level stored as a plain array is not reported
C8_Witness ==
    /\ LeaderboardOk
    /\ \E k \in 1..Len(resp.body.allFastestTimes) :
          LET entry == resp.body.allFastestTimes[k]
              times == Get(ItemOf(entry.username), "fastest-times")
          IN  /\ times.t = "map"
              /\ DOMAIN times.m = {"level1", "level2"}
              /\ times.m["level1"] =
                    Tagged(List(<<Map([n \in {"N"} |-> Str(<<"1", "2", ".", "5">>)]),
                                  Map([n \in {"N"} |-> Str(<<"b", "a", "d">>)]),
                                  Map([n \in {"N"} |-> Str(<<"3", ".", "2">>)])>>))
              /\ times.m["level2"] = List(<<Num(1)>>)
              /\ DOMAIN entry.fastestTimes = {"level1"}
              /\ entry.fastestTimes["level1"] = <<32, 125>>

ExpectedNumber(q, k) ==
    IF k \in DOMAIN q /\ ParseInt(q[k]).t = "num" THEN ParseInt(q[k]) ELSE Num(0)

ExpectedJson(q, k, default) ==
    IF k \in DOMAIN q THEN JsonParse(q[k].s).value ELSE default

ExpectedItem(q) ==
    [username |-> q.username] @@
    ("coins-collected" :> ExpectedNumber(q, "coinsCollected")) @@
    ("enemies-defeated" :> ExpectedNumber(q, "enemiesDefeated")) @@
    ("levels-completed" :> ExpectedJson(q, "levelsCompleted", List(<<>>))) @@
    ("fastest-times" :> ExpectedJson(q, "fastestTimes", Map(EmptyMap)))

(* C9: the record stored under a username is the item built from the query   *)
(* of its most recent successful update alone, absent parameters defaulted   *)
(* to 0, [] and {}; a record no update has named is as it was.               *)
C9_LastWriteWins ==
    /\ \A u \in DOMAIN lastUpdate :
          /\ u \in DOMAIN table
          /\ table[u] = ExpectedItem(lastUpdate[u])
    /\ \A u \in DOMAIN table \ DOMAIN lastUpdate : table[u] = BareItem(u)

\* p01 was just updated with its username alone, after an update of p02 that
\* set coins and times: p01 holds the defaults and p02 its own values
C9_Witness ==
    /\ req = [handler |-> "update", username |-> Text(PlayerNames[1])]
    /\ resp.statusCode = 200
    /\ DOMAIN lastUpdate = Usernames
    /\ DOMAIN lastUpdate[PlayerNames[1]] = {"username"}
    /\ {"coinsCollected", "fastestTimes"} \subseteq DOMAIN lastUpdate[PlayerNames[2]]
    /\ table[PlayerNames[1]]["coins-collected"] = Num(0)
    /\ table[PlayerNames[2]]["coins-collected"] = Num(7)

NoUsernameStep ==
    (req'.handler \in {"update", "get"} /\ ~Truthy(req'.username)) =>
        /\ resp'.statusCode = 400
        /\ storeCalls' = <<>>
        /\ table' = table

NotFoundStep ==
    (/\ req'.handler = "get"
     /\ Truthy(req'.username)
     /\ storeCalls' = <<[op |-> "get", ok |-> TRUE]>>
     /\ req'.username.s \notin DOMAIN table) =>
        /\ resp'.statusCode = 404
        /\ resp'.statusCode # 400

(* C10: an update or get request whose username is missing or empty answers  *)
(* 400 without calling the store and leaves the table unchanged; a get whose *)
(* username is present but has no record answers 404, not 400.               *)
C10_UsernameRequired == [][NoUsernameStep /\ NotFoundStep]_vars

\* an update with an empty username was refused while the table holds records
C10_Witness ==
    /\ req = [handler |-> "update", username |-> Text("")]
    /\ resp.statusCode = 400
    /\ storeCalls = <<>>
    /\ DOMAIN lastUpdate # {}

\* the last invocation was a leaderboard GET whose scan succeeded on a table
\* without records
EmptyTableGet == ScanDone /\ DOMAIN table = {}

EmptyDocument == [topCoins |-> <<>>, topEnemies |-> <<>>, allFastestTimes |-> <<>>]

TopOfTable(list, field, key) ==
    /\ Len(list) = Min(10, Cardinality(DOMAIN table))
    /\ \A u \in DOMAIN table :
          ~Listed(list, Text(u)) =>
              /\ Len(list) > 0
              /\ MetricOf(table[u], field) <= list[Len(list)][key].n

(* C12: in a leaderboard response every stored player has an entry in        *)
(* allFastestTimes and each ranking is a top 10 over all stored records,     *)
(* also when the store delivers the scan in more than one page.              *)
C12_WholeTable ==
    LeaderboardOk =>
        /\ \A u \in DOMAIN table : Listed(resp.body.allFastestTimes, Text(u))
        /\ TopOfTable(resp.body.topCoins, "coins-collected", "coins")
        /\ TopOfTable(resp.body.topEnemies, "enemies-defeated", "enemies")

====
